---- MODULE Spec2Model ----
(***************************************************************************)
(* Model of the DMRG sweep orchestrator DMRGWorker (itensor/dmrg.h).       *)
(*                                                                         *)
(* The orchestrator is one sequential function.  Its state is its local    *)
(* variables (sw, b, ha, energy, opts), the collaborators it drives (the   *)
(* state chain psi, the effective operator PH, the Observer) and its       *)
(* position in the code (pc).  Every collaborator call is recorded, in     *)
(* order, in the history variable log, with the arguments it received.     *)
(***************************************************************************)
EXTENDS Integers, Sequences, FiniteSets, TLC

(***************************************************************************)
(* Bounds of the model.                                                    *)
(***************************************************************************)
MaxN == 3
MaxSweeps == 2

(***************************************************************************)
(* Values.                                                                 *)
(***************************************************************************)
\* an option that is not defined in an option set
Undef == -1
\* Real energy = NAN
NAN == -2
\* eigenvalues the solver can return
Energies == {1, 2}
\* the debug levels DMRGWorker derives from Quiet
DebugQuiet == 0
DebugDefault == 1

Keys == {"Quiet", "DebugLevel", "DoNormalize", "WriteM",
         "Sweep", "Cutoff", "Minm", "Maxm", "Noise", "MaxIter",
         "AtBond", "HalfSweep", "Energy"}

\* schedule entries: (cutoff, minm, maxm, noise, niter) of one sweep
SweepEntries ==
    { [cutoff |-> 6, minm |-> 1, maxm |-> 10, noise |-> 3, niter |-> 2],
      [cutoff |-> 8, minm |-> 5, maxm |-> 20, noise |-> 0, niter |-> 4] }

\* thresholds the caller can configure as WriteM (or leave undefined)
WriteMValues == {Undef, 15, 20}

(***************************************************************************)
(* OptSet: a table from keys to values.                                    *)
(***************************************************************************)
OptDefined(o, k) == o[k] # Undef

OptGetInt(o, k, dflt) == IF OptDefined(o, k) THEN o[k] ELSE dflt

OptGetBool(o, k, dflt) == IF OptDefined(o, k) THEN o[k] = 1 ELSE dflt

OptAdd(o, k, v) == [o EXCEPT ![k] = v]

\* the option sets a caller can pass; stale: the caller left a value (77)
\* under the keys DMRGWorker itself writes
CallerOpts(quiet, writem, stale) ==
    [k \in Keys |->
        CASE k = "Quiet" -> quiet
          [] k = "WriteM" -> writem
          [] k \in {"Cutoff", "Minm", "Maxm", "Noise", "MaxIter",
                    "Sweep", "AtBond", "HalfSweep", "Energy"} ->
                 IF stale THEN 77 ELSE Undef
          [] OTHER -> Undef]

(***************************************************************************)
(* Sweeps: the schedule, a table of entries indexed by sweep number.       *)
(***************************************************************************)
RECURSIVE SeqsUpTo(_, _)
SeqsUpTo(S, n) ==
    IF n = 0 THEN {<<>>}
    ELSE LET shorter == SeqsUpTo(S, n - 1)
         IN  shorter \cup { Append(s, e) : s \in shorter, e \in S }

Schedules == SeqsUpTo(SweepEntries, MaxSweeps)

nsweep(s) == Len(s)
cutoff(s, i) == s[i].cutoff
minm(s, i) == s[i].minm
maxm(s, i) == s[i].maxm
noise(s, i) == s[i].noise
niter(s, i) == s[i].niter

VARIABLES
    N,            \* psi.N(), the chain length
    sweeps,       \* the schedule
    callerOpts,   \* the caller's option set
    phWriteAtEntry, \* PH.doWrite() when DMRGWorker is entered
    opts,         \* DMRGWorker's option set (its by-value parameter)
    pc,           \* position in DMRGWorker
    sw, b, ha,    \* loop variables
    energy,       \* Real energy
    center,       \* canonical center of psi
    psiWrite,     \* psi is in disk-paging mode
    phWrite,      \* PH is in disk-paging mode
    result,       \* the value DMRGWorker returned
    log,          \* the collaborator calls made so far
    eigenvalue,   \* the value the last davidson call returned
    spectrum,     \* the commit whose truncation report psi.spectrum holds
    pairedLog     \* the calls of an earlier run on the same inputs

vars == <<N, sweeps, callerOpts, phWriteAtEntry, opts, pc, sw, b, ha,
          energy, center, psiWrite, phWrite, result, log,
          eigenvalue, spectrum, pairedLog>>

\* what DMRGWorker reads and never writes
frame == <<N, sweeps, phWriteAtEntry, pairedLog>>

inputs == <<frame, callerOpts>>

\* what is left alone by every statement but the solve and the commit
solved == <<eigenvalue, spectrum>>

(***************************************************************************)
(* One recorded collaborator call.  sw, ha, b are the loop variables at    *)
(* the call; the other fields are the arguments the callee received (read  *)
(* from the option set handed to it), Undef where the call has none.       *)
(***************************************************************************)
Call(op, bond, dir, o, keys, ans) ==
    [op |-> op, sw |-> sw, ha |-> ha, b |-> b,
     bond |-> bond, dir |-> dir, ans |-> ans,
     Sweep     |-> IF "Sweep" \in keys THEN o["Sweep"] ELSE Undef,
     Cutoff    |-> IF "Cutoff" \in keys THEN o["Cutoff"] ELSE Undef,
     Minm      |-> IF "Minm" \in keys THEN o["Minm"] ELSE Undef,
     Maxm      |-> IF "Maxm" \in keys THEN o["Maxm"] ELSE Undef,
     Noise     |-> IF "Noise" \in keys THEN o["Noise"] ELSE Undef,
     MaxIter   |-> IF "MaxIter" \in keys THEN o["MaxIter"] ELSE Undef,
     AtBond    |-> IF "AtBond" \in keys THEN o["AtBond"] ELSE Undef,
     HalfSweep |-> IF "HalfSweep" \in keys THEN o["HalfSweep"] ELSE Undef]

NoDir == "none"
NoKeys == {}

\* psi.spectrum before any commit of the run
NoCommit == [sw |-> 0, ha |-> 0, bond |-> 0]

(***************************************************************************)
(* Init: DMRGWorker is about to be entered.                                *)
(***************************************************************************)
Init ==
    /\ N \in 2..MaxN
    /\ sweeps \in Schedules
    /\ \E quiet \in {Undef, 1}, writem \in WriteMValues, stale \in BOOLEAN :
            callerOpts = CallerOpts(quiet, writem, stale)
    /\ phWriteAtEntry \in BOOLEAN
    /\ opts = callerOpts
    /\ pc = "entry"
    /\ sw = 0 /\ b = 0 /\ ha = 0
    /\ energy = NAN
    /\ center \in {1, N}
    /\ psiWrite \in BOOLEAN
    /\ phWrite = phWriteAtEntry
    /\ result = NAN
    /\ log = <<>>
    /\ eigenvalue = NAN
    /\ spectrum = NoCommit
    /\ pairedLog = <<>>

(***************************************************************************)
(* Entry: lines 196-207 up to the first test of the sweep loop.            *)
(***************************************************************************)
CallerView_ByReference(callerSet, localSet) == localSet

\* OptSet opts is a by-value parameter (line 194): what DMRGWorker writes
\* to its option set does not reach the set of the caller
CallerView(callerSet, localSet) == callerSet

DebugLevel(o) ==
    LET quiet == OptGetBool(o, "Quiet", FALSE)
    IN  OptGetInt(o, "DebugLevel", IF quiet THEN DebugQuiet ELSE DebugDefault)

FirstSweep == 1

Entry_EnergyZero ==
    /\ pc = "entry"
    /\ energy' = 0
    /\ center' = 1
    /\ opts' = OptAdd(OptAdd(opts, "DebugLevel", DebugLevel(opts)),
                      "DoNormalize", 1)
    /\ sw' = FirstSweep
    /\ log' = Append(log, Call("psi.position", 1, NoDir, opts, NoKeys, Undef))
    /\ pc' = "sweep_test"
    /\ callerOpts' = CallerView(callerOpts, opts')
    /\ UNCHANGED <<frame, solved, b, ha, psiWrite, phWrite, result>>

Entry_NoPosition ==
    /\ pc = "entry"
    /\ energy' = NAN
    /\ center' = center
    /\ opts' = OptAdd(OptAdd(opts, "DebugLevel", DebugLevel(opts)),
                      "DoNormalize", 1)
    /\ sw' = FirstSweep
    /\ log' = log
    /\ pc' = "sweep_test"
    /\ callerOpts' = CallerView(callerOpts, opts')
    /\ UNCHANGED <<frame, solved, b, ha, psiWrite, phWrite, result>>

Entry ==
    /\ pc = "entry"
    /\ energy' = NAN
    /\ center' = 1
    /\ opts' = OptAdd(OptAdd(opts, "DebugLevel", DebugLevel(opts)),
                      "DoNormalize", 1)
    /\ sw' = FirstSweep
    /\ log' = Append(log, Call("psi.position", 1, NoDir, opts, NoKeys, Undef))
    /\ pc' = "sweep_test"
    /\ callerOpts' = CallerView(callerOpts, opts')
    /\ UNCHANGED <<frame, solved, b, ha, psiWrite, phWrite, result>>

(***************************************************************************)
(* Head of the sweep loop: lines 207-232.                                  *)
(***************************************************************************)
SweepContinues_Short(i, s) == i < nsweep(s)

\* for(int sw = 1; sw <= sweeps.nsweep(); ++sw)
SweepContinues(i, s) == i <= nsweep(s)

SweepOpts_NoMaxm(o, s, i) ==
    LET o1 == OptAdd(o, "Sweep", i)
        o2 == OptAdd(o1, "Cutoff", cutoff(s, i))
        o3 == OptAdd(o2, "Minm", minm(s, i))
        o5 == OptAdd(o3, "Noise", noise(s, i))
    IN  OptAdd(o5, "MaxIter", niter(s, i))

\* lines 209-214
SweepOpts(o, s, i) ==
    LET o1 == OptAdd(o, "Sweep", i)
        o2 == OptAdd(o1, "Cutoff", cutoff(s, i))
        o3 == OptAdd(o2, "Minm", minm(s, i))
        o4 == OptAdd(o3, "Maxm", maxm(s, i))
        o5 == OptAdd(o4, "Noise", noise(s, i))
    IN  OptAdd(o5, "MaxIter", niter(s, i))

WriteCond_Repeated(o, s, i, phw) ==
    /\ OptDefined(o, "WriteM")
    /\ maxm(s, i) >= o["WriteM"]

\* lines 216-218
WriteCond(o, s, i, phw) ==
    /\ ~phw
    /\ OptDefined(o, "WriteM")
    /\ maxm(s, i) >= o["WriteM"]

\* for(int b = 1, ha = 1; ha <= 2; sweepnext(b,ha,N))
LoopInit_SecondBond == [b |-> 2, ha |-> 1]

LoopInit_FromZero == [b |-> 0, ha |-> 1]

LoopInit == [b |-> 1, ha |-> 1]
BondLoopContinues_OneHalf(h) == h < 2

BondLoopContinues_ThreeHalves(h) == h <= 3

BondLoopContinues(h) == h <= 2

AfterSweepLoop_NoNormalize == "return"

\* the statement executed after the sweep loop is left (line 274)
AfterSweepLoop == "normalize"

SweepBegin_PagingCapsMaxm ==
    /\ pc = "sweep_test"
    /\ SweepContinues(sw, sweeps)
    /\ LET o == SweepOpts(opts, sweeps, sw)
       IN  IF WriteCond(o, sweeps, sw, phWrite)
           THEN /\ opts' = OptAdd(o, "Maxm", o["WriteM"])
                /\ psiWrite' = TRUE
                /\ phWrite' = TRUE
                /\ log' = log \o
                     << Call("psi.doWrite", Undef, NoDir, o, NoKeys, 1),
                        Call("PH.doWrite", Undef, NoDir, o, NoKeys, 1) >>
           ELSE /\ opts' = o
                /\ UNCHANGED <<psiWrite, phWrite, log>>
    /\ b' = LoopInit.b
    /\ ha' = LoopInit.ha
    /\ pc' = IF BondLoopContinues(LoopInit.ha) THEN "position" ELSE "checkDone"
    /\ callerOpts' = CallerView(callerOpts, opts')
    /\ UNCHANGED <<frame, solved, sw, energy, center, result>>

SweepBegin ==
    /\ pc = "sweep_test"
    /\ SweepContinues(sw, sweeps)
    /\ LET o == SweepOpts(opts, sweeps, sw)
       IN  /\ opts' = o
           /\ IF WriteCond(o, sweeps, sw, phWrite)
              THEN /\ psiWrite' = TRUE
                   /\ phWrite' = TRUE
                   /\ log' = log \o
                        << Call("psi.doWrite", Undef, NoDir, o, NoKeys, 1),
                           Call("PH.doWrite", Undef, NoDir, o, NoKeys, 1) >>
              ELSE UNCHANGED <<psiWrite, phWrite, log>>
    /\ b' = LoopInit.b
    /\ ha' = LoopInit.ha
    /\ pc' = IF BondLoopContinues(LoopInit.ha) THEN "position" ELSE "checkDone"
    /\ callerOpts' = CallerView(callerOpts, opts')
    /\ UNCHANGED <<frame, solved, sw, energy, center, result>>

SweepsExhausted ==
    /\ pc = "sweep_test"
    /\ ~SweepContinues(sw, sweeps)
    /\ pc' = AfterSweepLoop
    /\ UNCHANGED <<inputs, solved, opts, sw, b, ha, energy, center,
                   psiWrite, phWrite, result, log>>

(***************************************************************************)
(* Body of the bond loop: lines 240-266.                                   *)
(***************************************************************************)
StmtAfter_CommitFirst(stmt) ==
    CASE stmt = "position" -> "contract"
      [] stmt = "contract" -> "svdBond"
      [] stmt = "svdBond"  -> "davidson"
      [] stmt = "davidson" -> "measure"
      [] stmt = "measure"  -> "sweepnext"

\* the order of the statements of the body
StmtAfter(stmt) ==
    CASE stmt = "position" -> "contract"
      [] stmt = "contract" -> "davidson"
      [] stmt = "davidson" -> "svdBond"
      [] stmt = "svdBond"  -> "measure"
      [] stmt = "measure"  -> "sweepnext"

\* PH.position(b,psi)
Position ==
    /\ pc = "position"
    /\ log' = Append(log, Call("position", b, NoDir, opts, NoKeys, Undef))
    /\ pc' = StmtAfter("position")
    /\ UNCHANGED <<inputs, solved, opts, sw, b, ha, energy, center,
                   psiWrite, phWrite, result>>

\* Tensor phi = psi.A(b)*psi.A(b+1)
Contract ==
    /\ pc = "contract"
    /\ log' = Append(log, Call("contract", b, NoDir, opts, NoKeys, Undef))
    /\ pc' = StmtAfter("contract")
    /\ UNCHANGED <<inputs, solved, opts, sw, b, ha, energy, center,
                   psiWrite, phWrite, result>>

Davidson_Shadowed ==
    /\ pc = "davidson"
    /\ \E e \in Energies : eigenvalue' = e
    /\ energy' = energy
    /\ log' = Append(log, Call("davidson", Undef, NoDir, opts,
                               {"MaxIter"}, Undef))
    /\ pc' = StmtAfter("davidson")
    /\ UNCHANGED <<inputs, spectrum, opts, sw, b, ha, center,
                   psiWrite, phWrite, result>>

\* energy = davidson(PH,phi,opts)
Davidson ==
    /\ pc = "davidson"
    /\ \E e \in Energies : /\ eigenvalue' = e
                            /\ energy' = e
    /\ log' = Append(log, Call("davidson", Undef, NoDir, opts,
                               {"MaxIter"}, Undef))
    /\ pc' = StmtAfter("davidson")
    /\ UNCHANGED <<inputs, spectrum, opts, sw, b, ha, center,
                   psiWrite, phWrite, result>>

Direction_AlwaysLeft(h) == "Fromleft"

\* (ha==1?Fromleft:Fromright)
Direction(h) == IF h = 1 THEN "Fromleft" ELSE "Fromright"

\* the canonical center after psi.svdBond(bond,phi,dir,...)
CenterAfterSvdBond(bond, dir) == IF dir = "Fromleft" THEN bond + 1 ELSE bond

\* psi.svdBond(b,phi,(ha==1?Fromleft:Fromright),PH,opts)
SvdBond ==
    /\ pc = "svdBond"
    /\ center' = CenterAfterSvdBond(b, Direction(ha))
    /\ spectrum' = [sw |-> sw, ha |-> ha, bond |-> b]
    /\ log' = Append(log, Call("svdBond", b, Direction(ha), opts,
                               {"Cutoff", "Minm", "Maxm", "Noise"}, Undef))
    /\ pc' = StmtAfter("svdBond")
    /\ UNCHANGED <<inputs, eigenvalue, opts, sw, b, ha, energy,
                   psiWrite, phWrite, result>>

MeasureOpts_NoEnergy(o, bond, h, e) ==
    OptAdd(OptAdd(o, "AtBond", bond), "HalfSweep", h)

\* lines 262-264
MeasureOpts(o, bond, h, e) ==
    OptAdd(OptAdd(OptAdd(o, "AtBond", bond), "HalfSweep", h), "Energy", e)

\* obs.measure(opts)
Measure ==
    /\ pc = "measure"
    /\ LET o == MeasureOpts(opts, b, ha, energy)
       IN  /\ opts' = o
           /\ log' = Append(log, Call("measure", Undef, NoDir, o,
                                      {"Sweep", "AtBond", "HalfSweep"}, Undef))
    /\ pc' = StmtAfter("measure")
    /\ callerOpts' = CallerView(callerOpts, opts')
    /\ UNCHANGED <<frame, solved, sw, b, ha, energy, center,
                   psiWrite, phWrite, result>>

\* sweepnext(b,ha,N): the next bond of the serpentine traversal
sweepnext(bond, h, n) ==
    LET inc == IF h = 1 THEN 1 ELSE -1
        nb  == bond + inc
    IN  IF nb = (IF h = 1 THEN n ELSE 0)
        THEN [b |-> nb - inc, ha |-> h + 1]
        ELSE [b |-> nb, ha |-> h]

\* the increment and the test of the bond loop (line 232)
NextBond ==
    /\ pc = "sweepnext"
    /\ LET nx == sweepnext(b, ha, N)
       IN  /\ b' = nx.b
           /\ ha' = nx.ha
           /\ pc' = IF BondLoopContinues(nx.ha) THEN "position"
                    ELSE "checkDone"
    /\ UNCHANGED <<inputs, solved, opts, sw, energy, center,
                   psiWrite, phWrite, result, log>>

(***************************************************************************)
(* End of a sweep and exit: lines 270-276.                                 *)
(***************************************************************************)
\* if(obs.checkDone(opts)) break;
CheckDone ==
    /\ pc = "checkDone"
    /\ \E done \in BOOLEAN :
        /\ log' = Append(log, Call("checkDone", Undef, NoDir, opts,
                                   {"Sweep"}, IF done THEN 1 ELSE 0))
        /\ IF done
           THEN /\ pc' = AfterSweepLoop
                /\ sw' = sw
           ELSE /\ pc' = "sweep_test"
                /\ sw' = sw + 1
    /\ UNCHANGED <<inputs, solved, opts, b, ha, energy, center,
                   psiWrite, phWrite, result>>

\* psi.normalize()
Normalize ==
    /\ pc = "normalize"
    /\ log' = Append(log, Call("normalize", Undef, NoDir, opts, NoKeys, Undef))
    /\ pc' = "return"
    /\ UNCHANGED <<inputs, solved, opts, sw, b, ha, energy, center,
                   psiWrite, phWrite, result>>

\* return energy
Return ==
    /\ pc = "return"
    /\ result' = energy
    /\ pc' = "done"
    /\ UNCHANGED <<inputs, solved, opts, sw, b, ha, energy, center,
                   psiWrite, phWrite, log>>

Next ==
    \/ Entry
    \/ SweepBegin
    \/ SweepsExhausted
    \/ Position
    \/ Contract
    \/ Davidson
    \/ SvdBond
    \/ Measure
    \/ NextBond
    \/ CheckDone
    \/ Normalize
    \/ Return

Spec == Init /\ [][Next]_vars

(***************************************************************************)
(* Reading the history.                                                    *)
(***************************************************************************)
Idx == 1..Len(log)

BondOps == {"position", "contract", "davidson", "svdBond", "measure"}

BodyOrder == <<"position", "contract", "davidson", "svdBond", "measure">>

IsBondCall(c) == c.op \in BondOps
IsPosition(c) == c.op = "position"
IsSvdBond(c) == c.op = "svdBond"

\* number of calls of op made during sweep s
CountOp(op, s) == Cardinality({ i \in Idx : log[i].op = op /\ log[i].sw = s })

\* the sweeps in which some call of the bond loop was made
ExecutedSweeps == { log[i].sw : i \in { j \in Idx : IsBondCall(log[j]) } }

\* the sweeps after which checkDone answered true
DoneSweeps ==
    { log[i].sw : i \in { j \in Idx : log[j].op = "checkDone" /\ log[j].ans = 1 } }

Min(S) == CHOOSE x \in S : \A y \in S : x <= y

Terminated == pc = "done"

\* the commits of one sweep of a chain of n sites, in serpentine order
SerpentineOrder(n) ==
    [i \in 1..(2 * (n - 1)) |->
        IF i <= n - 1
        THEN [bond |-> i, dir |-> "Fromleft", ha |-> 1]
        ELSE [bond |-> 2 * (n - 1) - i + 1, dir |-> "Fromright", ha |-> 2]]

\* the commits made during sweep s, in the order they were made
CommitsOf(s) ==
    LET InSweep(c) == IsSvdBond(c) /\ c.sw = s
        sel == SelectSeq(log, InSweep)
    IN  [i \in 1..Len(sel) |->
            [bond |-> sel[i].bond, dir |-> sel[i].dir, ha |-> sel[i].ha]]

IsPrefix(p, q) ==
    /\ Len(p) <= Len(q)
    /\ \A i \in 1..Len(p) : p[i] = q[i]

(***************************************************************************)
(* C1: the run performs exactly the sweeps 1..k, where k is the sweep      *)
(* after which checkDone first answered true, or 1..nsweep when it never   *)
(* did; every performed sweep has both half-sweeps (N-1 commits each);     *)
(* and once checkDone has answered true no position, solve, commit or      *)
(* measure call follows.                                                   *)
(***************************************************************************)
C1_ExactSweeps ==
    /\ \A i \in Idx :
          (log[i].op = "checkDone" /\ log[i].ans = 1) =>
              \A j \in (i + 1)..Len(log) : ~IsBondCall(log[j])
    /\ \A i \in 1..(Len(log) - 1) :
          (IsBondCall(log[i]) /\ IsBondCall(log[i + 1])) =>
              log[i].sw <= log[i + 1].sw
    /\ Terminated =>
          /\ ExecutedSweeps =
                IF DoneSweeps # {}
                THEN 1..(IF Min(DoneSweeps) <= nsweep(sweeps)
                         THEN Min(DoneSweeps) ELSE nsweep(sweeps))
                ELSE 1..nsweep(sweeps)
          /\ \A s \in ExecutedSweeps :
                /\ Cardinality({ i \in Idx : IsSvdBond(log[i]) /\ log[i].sw = s
                                             /\ log[i].ha = 1 }) = N - 1
                /\ Cardinality({ i \in Idx : IsSvdBond(log[i]) /\ log[i].sw = s
                                             /\ log[i].ha = 2 }) = N - 1

\* an early termination: a schedule of two sweeps stopped after sweep 1
C1_Witness ==
    /\ Terminated
    /\ nsweep(sweeps) = 2
    /\ DoneSweeps = {1}
    /\ CountOp("svdBond", 1) = 2 * (N - 1)

(***************************************************************************)
(* C2: psi.normalize is called at most once, nothing is called after it,   *)
(* and a run that has terminated has called it exactly once, as its last   *)
(* call.                                                                   *)
(***************************************************************************)
C2_NormalizeLast ==
    /\ \A i \in Idx : log[i].op = "normalize" => i = Len(log)
    /\ Terminated => (Len(log) > 0 /\ log[Len(log)].op = "normalize")
    /\ (\E i \in Idx : log[i].op = "normalize") => pc \in {"return", "done"}

\* a run that converged (checkDone answered true) and was normalized
C2_Witness ==
    /\ Terminated
    /\ DoneSweeps # {}
    /\ log[Len(log)].op = "normalize"
    /\ log[Len(log) - 1].op = "checkDone"

(***************************************************************************)
(* C3: the commits of every sweep are bonds 1..N-1 with direction          *)
(* Fromleft, then bonds N-1..1 with direction Fromright: at every moment   *)
(* the commits made in a sweep are a prefix of that order, and a sweep     *)
(* that has reached its checkDone has made all 2(N-1) of them.             *)
(***************************************************************************)
C3_SerpentineOrder ==
    /\ \A s \in 1..MaxSweeps : IsPrefix(CommitsOf(s), SerpentineOrder(N))
    /\ \A s \in 1..MaxSweeps :
          (CountOp("checkDone", s) > 0 \/ (pc = "checkDone" /\ sw = s)) =>
              CommitsOf(s) = SerpentineOrder(N)

\* the second sweep of a three-site chain has completed
C3_Witness ==
    /\ N = 3
    /\ pc = "checkDone"
    /\ sw = 2
    /\ Len(CommitsOf(2)) = 4

(***************************************************************************)
(* C4: the calls of the bond loop come in groups of five, in the order     *)
(* position, contract, davidson, svdBond, measure; the calls of one group  *)
(* belong to the same bond update (same sweep, half-sweep and bond), the   *)
(* position, the contraction and the commit of a group name the same bond, *)
(* and no two groups belong to the same bond update.  Hence every solve    *)
(* is preceded, since the previous commit, by the position call of its     *)
(* own bond.                                                               *)
(***************************************************************************)
BondCalls == SelectSeq(log, IsBondCall)

GroupStart(i) == i - ((i - 1) % 5)

C4_CallOrder ==
    LET B == BondCalls
    IN  /\ \A i \in 1..Len(B) :
              /\ B[i].op = BodyOrder[((i - 1) % 5) + 1]
              /\ B[i].sw = B[GroupStart(i)].sw
              /\ B[i].ha = B[GroupStart(i)].ha
              /\ B[i].b = B[GroupStart(i)].b
              /\ B[i].op \in {"position", "contract", "svdBond"} =>
                    B[i].bond = B[GroupStart(i)].bond
              /\ B[i].op = "position" => B[i].bond = B[i].b
        /\ \A i, j \in { k \in 1..Len(B) : B[k].op = "position" } :
              (B[i].sw = B[j].sw /\ B[i].ha = B[j].ha /\ B[i].b = B[j].b)
                  => i = j

\* a complete bond update in the backward half-sweep: its measure call is
\* the fifth call after the position call of the same bond
C4_Witness ==
    /\ pc = "sweepnext"
    /\ ha = 2
    /\ N = 3
    /\ b = 1
    /\ Len(BondCalls) = 20
    /\ BondCalls[16].op = "position" /\ BondCalls[16].bond = 1
    /\ BondCalls[19].op = "svdBond" /\ BondCalls[19].bond = 1
    /\ BondCalls[20].op = "measure"

(***************************************************************************)
(* C5: checkDone is called at most once per sweep, exactly once for every  *)
(* sweep that was started once the run has left the sweep loop, and only   *)
(* directly after the 2(N-1)-th measure call of that sweep; every call of  *)
(* a later sweep comes after the checkDone of the sweep before it, which   *)
(* answered false.                                                         *)
(***************************************************************************)
C5_CheckDonePerSweep ==
    /\ \A i \in Idx :
          log[i].op = "checkDone" =>
              /\ i > 1
              /\ log[i - 1].op = "measure"
              /\ log[i - 1].sw = log[i].sw
              /\ CountOp("measure", log[i].sw) = 2 * (N - 1)
              /\ \A j \in 1..(i - 1) : log[j].sw <= log[i].sw
    /\ \A s \in 1..MaxSweeps : CountOp("checkDone", s) <= 1
    /\ \A s \in 2..MaxSweeps :
          LET calls == { i \in Idx : IsBondCall(log[i]) /\ log[i].sw = s }
          IN  calls # {} =>
                \E j \in Idx : /\ log[j].op = "checkDone"
                               /\ log[j].sw = s - 1
                               /\ log[j].ans = 0
                               /\ \A i \in calls : j < i
    /\ pc \in {"normalize", "return", "done"} =>
          \A s \in ExecutedSweeps :
              /\ CountOp("checkDone", s) = 1
              /\ CountOp("measure", s) = 2 * (N - 1)

\* the final sweep of a two-sweep schedule was followed by its checkDone
C5_Witness ==
    /\ pc = "normalize"
    /\ nsweep(sweeps) = 2
    /\ CountOp("checkDone", 1) = 1
    /\ CountOp("checkDone", 2) = 1
    /\ log[Len(log)].op = "checkDone"
    /\ log[Len(log)].ans = 0

(***************************************************************************)
(* C6, as claimed: a run on a schedule of zero sweeps does not terminate   *)
(* normally.                                                               *)
(***************************************************************************)
C6_ZeroSweepsAborts == nsweep(sweeps) = 0 => ~Terminated

(***************************************************************************)
(* C6, amended: on a schedule of zero sweeps the run raises no error; it   *)
(* makes no bond update, no Observer call and no doWrite call, normalizes  *)
(* the chain and returns NAN.                                              *)
(***************************************************************************)
C6_ZeroSweepsReturnsNaN ==
    nsweep(sweeps) = 0 =>
        /\ \A i \in Idx : log[i].op \in {"psi.position", "normalize"}
        /\ pc \in {"entry", "sweep_test", "normalize", "return", "done"}
        /\ energy = NAN
        /\ Terminated =>
              /\ result = NAN
              /\ Len(log) = 2
              /\ log[1].op = "psi.position"
              /\ log[2].op = "normalize"

\* a run on the empty schedule has returned
C6_Witness ==
    /\ nsweep(sweeps) = 0
    /\ Terminated
    /\ result = NAN

(***************************************************************************)
(* C7: the canonical center is site 1 when the first bond update starts;   *)
(* after a commit at bond b it is b+1 in the forward half-sweep and b in   *)
(* the backward one; and from the position call of bond b up to its        *)
(* commit the center is one of the sites b, b+1.                           *)
(***************************************************************************)
C7_CenterInWindow ==
    /\ pc \in {"position", "contract", "davidson", "svdBond"} =>
          center \in {b, b + 1}
    /\ (pc = "position" /\ \A i \in Idx : ~IsSvdBond(log[i])) => center = 1
    /\ pc \in {"measure", "sweepnext"} =>
          center = IF ha = 1 THEN b + 1 ELSE b

\* the turnaround of the second sweep of a three-site chain: the backward
\* half-sweep is about to position at bond N-1
C7_Witness ==
    /\ N = 3
    /\ sw = 2
    /\ ha = 2
    /\ b = 2
    /\ pc = "position"
    /\ center = 3

(***************************************************************************)
(* C8: every solve receives MaxIter = niter(sw) and every commit receives  *)
(* Cutoff, Minm, Maxm, Noise = cutoff(sw), minm(sw), maxm(sw), noise(sw)   *)
(* of the sweep sw it is made in.                                          *)
(***************************************************************************)
C8_ScheduleParams ==
    \A i \in Idx :
        /\ log[i].op = "davidson" =>
              log[i].MaxIter = niter(sweeps, log[i].sw)
        /\ log[i].op = "svdBond" =>
              /\ log[i].Cutoff = cutoff(sweeps, log[i].sw)
              /\ log[i].Minm = minm(sweeps, log[i].sw)
              /\ log[i].Maxm = maxm(sweeps, log[i].sw)
              /\ log[i].Noise = noise(sweeps, log[i].sw)

\* a commit in the second sweep, whose entry differs from the first
\* sweep's, of a run whose caller had put other values in the option set
C8_Witness ==
    /\ nsweep(sweeps) = 2
    /\ sweeps[1] # sweeps[2]
    /\ OptDefined(callerOpts, "Maxm")
    /\ Len(log) > 0
    /\ log[Len(log)].op = "svdBond"
    /\ log[Len(log)].sw = 2
    /\ log[Len(log)].Maxm = maxm(sweeps, 2)

(***************************************************************************)
(* C9: the first PH.position call is for bond 1 and every later one is     *)
(* for a bond at distance at most one from the bond of the position call   *)
(* before it.                                                              *)
(***************************************************************************)
PositionCalls == SelectSeq(log, IsPosition)

WriteM == callerOpts["WriteM"]

\* the sweeps whose head (lines 209-230) has been executed
StartedSweeps ==
    { s \in 1..nsweep(sweeps) : s < sw \/ (s = sw /\ pc # "sweep_test") }

\* the sweeps at whose start paging was switched on
WriteOnSweeps ==
    { log[i].sw : i \in { j \in Idx : log[j].op = "PH.doWrite" } }

\* doWrite(true) is called on psi and on PH together, never with false
WriteTogether ==
    \A i \in Idx :
        /\ log[i].op = "psi.doWrite" =>
              /\ i < Len(log)
              /\ log[i + 1].op = "PH.doWrite"
              /\ log[i + 1].sw = log[i].sw
              /\ log[i].ans = 1
        /\ log[i].op = "PH.doWrite" =>
              /\ i > 1
              /\ log[i - 1].op = "psi.doWrite"
              /\ log[i].ans = 1
              /\ i < Len(log) => log[i + 1].op = "position"

WriteAtMostOnce ==
    Cardinality({ i \in Idx : log[i].op = "PH.doWrite" }) <= 1

NeverSwitchedOff ==
    /\ phWriteAtEntry => phWrite
    /\ WriteOnSweeps # {} => (phWrite /\ psiWrite)

(***************************************************************************)
(* C10, as claimed: paging is switched on (where it is not on already) at  *)
(* the start of the first sweep whose maxm is greater than WriteM and at   *)
(* no sweep whose maxm is not greater than WriteM; never when WriteM is    *)
(* not configured; at most once; never switched off.                       *)
(***************************************************************************)
C10_WriteWhenExceeds ==
    /\ WriteTogether
    /\ WriteAtMostOnce
    /\ NeverSwitchedOff
    /\ WriteM = Undef => WriteOnSweeps = {}
    /\ \A s \in WriteOnSweeps : maxm(sweeps, s) > WriteM
    /\ \A s \in StartedSweeps :
          (/\ WriteM # Undef
           /\ ~phWriteAtEntry
           /\ maxm(sweeps, s) > WriteM
           /\ \A t \in 1..(s - 1) : ~(maxm(sweeps, t) > WriteM))
              => s \in WriteOnSweeps

(***************************************************************************)
(* C10, amended: provided the effective operator is not already in         *)
(* disk-paging mode when the run starts, paging is switched on at the      *)
(* start of the first sweep whose maxm is greater than or equal to WriteM, *)
(* and at no other sweep; it is never switched on when WriteM is not       *)
(* configured or when the effective operator is already paging, at most    *)
(* once per run, and never switched off.                                   *)
(***************************************************************************)
C10_WriteWhenReached ==
    /\ WriteTogether
    /\ WriteAtMostOnce
    /\ NeverSwitchedOff
    /\ (WriteM = Undef \/ phWriteAtEntry) => WriteOnSweeps = {}
    /\ \A s \in WriteOnSweeps :
          /\ maxm(sweeps, s) >= WriteM
          /\ \A t \in 1..(s - 1) : maxm(sweeps, t) < WriteM
    /\ \A s \in StartedSweeps :
          (/\ WriteM # Undef
           /\ ~phWriteAtEntry
           /\ maxm(sweeps, s) >= WriteM
           /\ \A t \in 1..(s - 1) : maxm(sweeps, t) < WriteM)
              => s \in WriteOnSweeps

\* paging was switched on at the start of the second sweep, the first
\* whose maxm reaches WriteM, and the sweep is under way
C10_Witness ==
    /\ nsweep(sweeps) = 2
    /\ WriteM = 20
    /\ maxm(sweeps, 1) = 10
    /\ maxm(sweeps, 2) = 20
    /\ ~phWriteAtEntry
    /\ WriteOnSweeps = {2}
    /\ phWrite /\ psiWrite
    /\ pc = "davidson"

(***************************************************************************)
(* Two runs on the same inputs.  When a run whose caller configured WriteM *)
(* has returned, SecondRun keeps its calls in pairedLog and enters         *)
(* DMRGWorker again with the same chain length, schedule and option set,   *)
(* except that WriteM is not configured.  The Observer is the same: its    *)
(* checkDone answers in the second run are those of the first.             *)
(***************************************************************************)
IsWriteCall(c) == c.op \in {"psi.doWrite", "PH.doWrite"}
NotWriteCall(c) == ~IsWriteCall(c)
IsCheckDone(c) == c.op = "checkDone"

\* the calls of a run other than the doWrite calls
WithoutWrites(l) == SelectSeq(l, NotWriteCall)

\* the answers of the Observer's checkDone, in order
Answers(l) ==
    LET cd == SelectSeq(l, IsCheckDone)
    IN  [i \in 1..Len(cd) |-> cd[i].ans]

InSecondRun == pairedLog # <<>>

SameObserver == InSecondRun => IsPrefix(Answers(log), Answers(pairedLog))

SecondRun ==
    /\ pc = "done"
    /\ ~InSecondRun
    /\ OptDefined(callerOpts, "WriteM")
    /\ pairedLog' = log
    /\ callerOpts' = OptAdd(callerOpts, "WriteM", Undef)
    /\ opts' = callerOpts'
    /\ pc' = "entry"
    /\ sw' = 0 /\ b' = 0 /\ ha' = 0
    /\ energy' = NAN
    /\ center' \in {1, N}
    /\ psiWrite' \in BOOLEAN
    /\ phWrite' = phWriteAtEntry
    /\ result' = NAN
    /\ log' = <<>>
    /\ eigenvalue' = NAN
    /\ spectrum' = NoCommit
    /\ UNCHANGED <<N, sweeps, phWriteAtEntry>>

\* checkDone of the same Observer
CheckDoneAgain == CheckDone /\ SameObserver'

NextPair ==
    \/ Entry
    \/ SweepBegin
    \/ SweepsExhausted
    \/ Position
    \/ Contract
    \/ Davidson
    \/ SvdBond
    \/ Measure
    \/ NextBond
    \/ CheckDoneAgain
    \/ Normalize
    \/ Return
    \/ SecondRun

SpecPair == Init /\ [][NextPair]_vars

(***************************************************************************)
(* C11: a run without WriteM makes, for the same chain length, schedule,   *)
(* option set and Observer answers, the calls of the run with WriteM, less *)
(* the doWrite calls: the same position, contract, davidson, svdBond,      *)
(* measure and checkDone calls with the same bonds, directions and         *)
(* parameters, in the same order, ending with the same normalize call.     *)
(***************************************************************************)
C11_PagingTransparent ==
    InSecondRun =>
        /\ IsPrefix(WithoutWrites(log), WithoutWrites(pairedLog))
        /\ \A i \in Idx : ~IsWriteCall(log[i])
        /\ Terminated => /\ log = WithoutWrites(pairedLog)
                         /\ log[Len(log)].op = "normalize"

\* the first run switched paging on, the second has returned after the
\* same two sweeps
C11_Witness ==
    /\ InSecondRun
    /\ Terminated
    /\ \E i \in 1..Len(pairedLog) : pairedLog[i].op = "PH.doWrite"
    /\ Len(pairedLog) = Len(log) + 2
    /\ CountOp("checkDone", 2) = 1

(***************************************************************************)
(* A collaborator call of the bond loop fails.  PH.position, the           *)
(* contraction, davidson, psi.svdBond and obs.measure can throw;           *)
(* DMRGWorker has no handler, so the exception leaves it: nothing of the   *)
(* failing statement's assignment and nothing after it is executed.        *)
(***************************************************************************)
AfterThrow_Retry(stmt) == stmt

\* where control goes when statement stmt throws: out of DMRGWorker
AfterThrow(stmt) == "failed"

\* the call being made at statement stmt, with the arguments it receives
CallAt(stmt, o) ==
    CASE stmt = "position" -> Call("position", b, NoDir, o, NoKeys, Undef)
      [] stmt = "contract" -> Call("contract", b, NoDir, o, NoKeys, Undef)
      [] stmt = "davidson" -> Call("davidson", Undef, NoDir, o,
                                   {"MaxIter"}, Undef)
      [] stmt = "svdBond"  -> Call("svdBond", b, Direction(ha), o,
                                   {"Cutoff", "Minm", "Maxm", "Noise"}, Undef)
      [] stmt = "measure"  -> Call("measure", Undef, NoDir, o,
                                   {"Sweep", "AtBond", "HalfSweep"}, Undef)

Throw ==
    /\ pc \in BondOps
    /\ opts' = IF pc = "measure" THEN MeasureOpts(opts, b, ha, energy)
               ELSE opts
    /\ callerOpts' = CallerView(callerOpts, opts')
    /\ log' = log \o << CallAt(pc, opts'),
                        Call("throw", Undef, NoDir, opts', NoKeys, Undef) >>
    /\ pc' = AfterThrow(pc)
    /\ UNCHANGED <<frame, solved, sw, b, ha, energy, center,
                   psiWrite, phWrite, result>>

NextFail ==
    \/ Entry
    \/ SweepBegin
    \/ SweepsExhausted
    \/ Position
    \/ Contract
    \/ Davidson
    \/ SvdBond
    \/ Measure
    \/ NextBond
    \/ CheckDone
    \/ Normalize
    \/ Return
    \/ Throw

SpecFail == Init /\ [][NextFail]_vars

\* the statements of the loop body that come after stmt
StmtsAfter(stmt) ==
    { BodyOrder[j] : j \in { k \in 1..5 : \E i \in 1..(k - 1) :
                                              BodyOrder[i] = stmt } }

SameBondUpdate(c, d) == c.sw = d.sw /\ c.ha = d.ha /\ c.b = d.b

(***************************************************************************)
(* C12: when a call of the bond loop throws, the exception is the last     *)
(* thing that happens: the failing call was made once for that bond        *)
(* update (no retry), no later statement of the body (commit, measure) was *)
(* executed for it, no other bond or sweep follows, the chain is not       *)
(* normalized and no energy is returned.                                   *)
(***************************************************************************)
C12_FailureSurfaces ==
    /\ \A i \in Idx :
          log[i].op = "throw" =>
              /\ i = Len(log)
              /\ i > 1
              /\ pc = "failed"
              /\ IsBondCall(log[i - 1])
              /\ SameBondUpdate(log[i - 1], log[i])
              /\ Cardinality({ j \in Idx : /\ log[j].op = log[i - 1].op
                                           /\ SameBondUpdate(log[j], log[i]) })
                    = 1
              /\ \A j \in Idx : SameBondUpdate(log[j], log[i]) =>
                    log[j].op \notin StmtsAfter(log[i - 1].op)
    /\ pc = "failed" =>
          /\ Len(log) > 0
          /\ log[Len(log)].op = "throw"
          /\ result = NAN
          /\ \A i \in Idx : log[i].op # "normalize"

\* the solve of a bond in the backward half of the second sweep failed
C12_Witness ==
    /\ pc = "failed"
    /\ sw = 2
    /\ ha = 2
    /\ log[Len(log) - 1].op = "davidson"
    /\ log[Len(log) - 2].op = "contract"

(***************************************************************************)
(* Runs on a chain of any length, a single site included.  On one site     *)
(* sweepnext never reaches the end of the forward half-sweep and b grows   *)
(* without limit; the model follows b up to MaxN.                          *)
(***************************************************************************)
InitAnyN ==
    /\ N \in 1..MaxN
    /\ sweeps \in Schedules
    /\ \E quiet \in {Undef, 1}, writem \in WriteMValues, stale \in BOOLEAN :
            callerOpts = CallerOpts(quiet, writem, stale)
    /\ phWriteAtEntry \in BOOLEAN
    /\ opts = callerOpts
    /\ pc = "entry"
    /\ sw = 0 /\ b = 0 /\ ha = 0
    /\ energy = NAN
    /\ center \in {1, N}
    /\ psiWrite \in BOOLEAN
    /\ phWrite = phWriteAtEntry
    /\ result = NAN
    /\ log = <<>>
    /\ eigenvalue = NAN
    /\ spectrum = NoCommit
    /\ pairedLog = <<>>

NextBondUpToMaxN == NextBond /\ b' <= MaxN

NextAnyN ==
    \/ Entry
    \/ SweepBegin
    \/ SweepsExhausted
    \/ Position
    \/ Contract
    \/ Davidson
    \/ SvdBond
    \/ Measure
    \/ NextBondUpToMaxN
    \/ CheckDone
    \/ Normalize
    \/ Return

SpecAnyN == InitAnyN /\ [][NextAnyN]_vars

\* the bond index of every position, contraction and commit is a bond of
\* the chain
BondsInRange ==
    \A i \in Idx :
        log[i].op \in {"position", "contract", "svdBond"} =>
            (1 <= log[i].bond /\ log[i].bond <= N - 1)

(***************************************************************************)
(* C13, as claimed: on a chain of any length N >= 1, every bond index      *)
(* passed to position, to the contraction and to the commit is in 1..N-1.  *)
(***************************************************************************)
C13_BondInRangeAnyN == N >= 1 => BondsInRange

(***************************************************************************)
(* C13, amended: on a chain of length N >= 2, every bond index passed to   *)
(* position, to the contraction and to the commit is in 1..N-1.            *)
(***************************************************************************)
C13_BondInRange == N >= 2 => BondsInRange

\* both ends of the range were committed, in the backward half-sweep too
C13_Witness ==
    /\ N = 3
    /\ pc = "checkDone"
    /\ \E i \in Idx : IsSvdBond(log[i]) /\ log[i].bond = 1 /\ log[i].ha = 2
    /\ \E i \in Idx : IsSvdBond(log[i]) /\ log[i].bond = N - 1
                                        /\ log[i].ha = 2

(***************************************************************************)
(* The context of obs.measure is the option set opts.                      *)
(***************************************************************************)
\* keys under which a truncation report (kept rank, truncation error)
\* would be handed over in an option set
ReportKeys == {"Truncerr", "KeptStates"}

ContextHasReport(o) ==
    \A k \in ReportKeys : k \in DOMAIN o /\ OptDefined(o, k)

\* every measure call was given the sweep, bond and half-sweep of the bond
\* update it belongs to
MeasureNamesBond ==
    \A i \in Idx :
        log[i].op = "measure" =>
            /\ log[i].Sweep = log[i].sw
            /\ log[i].AtBond = log[i].b
            /\ log[i].HalfSweep = log[i].ha

\* right after a measure call: the context it was given holds the values
\* of the bond just committed, and the energy the solve of that bond
\* returned
ContextIsCurrent ==
    pc = "sweepnext" =>
        /\ opts["Sweep"] = sw
        /\ opts["AtBond"] = b
        /\ opts["HalfSweep"] = ha
        /\ opts["Energy"] = eigenvalue
        /\ opts["Energy"] = energy

\* at a measure call the chain holds the truncation report of the commit
\* of the same bond update
SpectrumIsCurrent ==
    pc \in {"measure", "sweepnext"} =>
        spectrum = [sw |-> sw, ha |-> ha, bond |-> b]

(***************************************************************************)
(* C14, as claimed: the context of every measure call carries the sweep,   *)
(* the half-sweep, the bond, the energy of that bond's solve and the       *)
(* truncation report of that bond's commit.                                *)
(***************************************************************************)
C14_ContextWithReport ==
    /\ MeasureNamesBond
    /\ ContextIsCurrent
    /\ pc = "sweepnext" => ContextHasReport(opts)

(***************************************************************************)
(* C14, amended: the context of every measure call carries the sweep, the  *)
(* half-sweep, the bond and the energy of that bond's solve, none of them  *)
(* stale; it does not carry the truncation report, which is held by the    *)
(* chain (psi.spectrum), where at the measure call it is the report of     *)
(* that bond's commit.                                                     *)
(***************************************************************************)
C14_MeasureContext ==
    /\ MeasureNamesBond
    /\ ContextIsCurrent
    /\ SpectrumIsCurrent
    /\ pc = "sweepnext" => ~ContextHasReport(opts)

\* the last measure of the second sweep was given the energy 2 of the
\* solve at bond 1, whatever the earlier solves returned
C14_Witness ==
    /\ pc = "sweepnext"
    /\ sw = 2
    /\ ha = 2
    /\ b = 1
    /\ opts["AtBond"] = 1
    /\ opts["HalfSweep"] = 2
    /\ opts["Energy"] = 2
    /\ eigenvalue = 2

(***************************************************************************)
(* C15: the value DMRGWorker returns is the value returned by the last     *)
(* davidson call of the run, which is the solve of bond 1 in the backward  *)
(* half-sweep of the last executed sweep, and it is the Energy given to    *)
(* the last measure call, which belongs to the same bond update.           *)
(***************************************************************************)
LastIndexOf(op) ==
    CHOOSE i \in Idx : /\ log[i].op = op
                       /\ \A j \in (i + 1)..Len(log) : log[j].op # op

C15_ReturnsLastEnergy ==
    (Terminated /\ ExecutedSweeps # {}) =>
        LET d == log[LastIndexOf("davidson")]
            m == log[LastIndexOf("measure")]
        IN  /\ result = eigenvalue
            /\ result = opts["Energy"]
            /\ d.ha = 2
            /\ d.b = 1
            /\ \A s \in ExecutedSweeps : s <= d.sw
            /\ SameBondUpdate(d, m)
            /\ LastIndexOf("davidson") < LastIndexOf("measure")

\* a run of two sweeps returned the energy 2 of its last solve
C15_Witness ==
    /\ Terminated
    /\ ExecutedSweeps = {1, 2}
    /\ result = 2
    /\ eigenvalue = 2
    /\ opts["Energy"] = 2

(***************************************************************************)
(* Runs in which every collaborator call returns: DMRGWorker is sequential *)
(* code, so a statement that can be executed is executed.                  *)
(***************************************************************************)
SpecFair == Spec /\ WF_vars(Next)

\* the bond updates (commits) made so far
BondUpdates == Cardinality({ i \in Idx : IsSvdBond(log[i]) })

(***************************************************************************)
(* C16: every run reaches the terminal state; it makes at most             *)
(* nsweep * 2(N-1) bond updates; the sweep counter never decreases, and    *)
(* the half-sweep counter never decreases within a sweep (it is set anew   *)
(* only at the head of a sweep).                                           *)
(***************************************************************************)
C16_Terminates ==
    /\ <>Terminated
    /\ [](BondUpdates <= nsweep(sweeps) * 2 * (N - 1))
    /\ [][sw' >= sw]_vars
    /\ [][pc # "sweep_test" => ha' >= ha]_vars

\* a run that used the whole schedule: two sweeps of a three-site chain,
\* eight bond updates
C16_Witness ==
    /\ Terminated
    /\ N = 3
    /\ nsweep(sweeps) = 2
    /\ BondUpdates = 8
    /\ sw = 3

(***************************************************************************)
(* C17: no step of a run changes the option set of the caller or the       *)
(* schedule: the caller's set stays one of the sets a caller can pass,     *)
(* without the keys DMRGWorker adds, while DMRGWorker's own set (the one   *)
(* handed to davidson, svdBond and the Observer) has them.                 *)
(***************************************************************************)
\* the keys DMRGWorker adds to its option set (lines 204-214, 262-264)
WorkerKeys == {"DebugLevel", "DoNormalize", "Sweep", "Cutoff", "Minm",
               "Maxm", "Noise", "MaxIter", "AtBond", "HalfSweep", "Energy"}

CallerOptsAsPassed ==
    \E quiet \in {Undef, 1}, writem \in WriteMValues, stale \in BOOLEAN :
        callerOpts = CallerOpts(quiet, writem, stale)

C17_CallerOptsUnchanged ==
    /\ [][callerOpts' = callerOpts /\ sweeps' = sweeps]_vars
    /\ [](CallerOptsAsPassed /\ sweeps \in Schedules)
    /\ [](pc = "sweepnext" => \A k \in WorkerKeys : OptDefined(opts, k))

\* after a run of two sweeps the caller's set has none of the keys the
\* run added to its own
C17_Witness ==
    /\ Terminated
    /\ ExecutedSweeps = {1, 2}
    /\ \A k \in WorkerKeys : OptDefined(opts, k) /\ ~OptDefined(callerOpts, k)
    /\ opts["Sweep"] = 2
    /\ OptDefined(callerOpts, "WriteM")

====
